---- MODULE Spec2Model ----
(***************************************************************************)
(* Model of pydantic_resolve/resolver.py: the Resolver class (exec_method, *)
(* resolve_obj, resolve) running on one asyncio event loop.                *)
(*                                                                         *)
(* The event loop is modelled as asyncio runs it: a FIFO queue of ready    *)
(* callbacks, one callback running at a time, a task running until it      *)
(* awaits a pending future.  Timers and I/O (a future settled later, a     *)
(* batch-fetch completing) are the only nondeterminism besides the inputs. *)
(*                                                                         *)
(* A coroutine invocation is a frame.  A frame created by asyncio.gather   *)
(* is the root of a task ("task"); the resolve called at line 104 runs     *)
(* inside its caller's task ("inline"); the resolve awaited by the         *)
(* application is "top".                                                   *)
(*                                                                         *)
(* The plain resolve function of the package, which the tests call, runs   *)
(* the same traversal without a Resolver object.                           *)
(***************************************************************************)
EXTENDS Integers, Sequences, FiniteSets, TLC

(***************************************************************************)
(* Bounds                                                                  *)
(***************************************************************************)
MaxCalls == 2
MaxConcurrent == 2

(***************************************************************************)
(* Names.  A name is a sequence of tokens so that str.replace and the      *)
(* f-string of the cache key are computed, not assumed.                    *)
(***************************************************************************)
PREFIX == "resolve_"
POST_PREFIX == "post_"

\* str.replace(old, ''): removes every occurrence of the token
Replace(name, old) == SelectSeq(name, LAMBDA t : t # old)

(***************************************************************************)
(* Batching-unit definitions handed to LoaderDepend: four definitions,     *)
(* two of which are distinct classes named Loader in the same module.      *)
(***************************************************************************)
Defs == {"BookLoader", "LoaderA", "LoaderB", "LoaderC"}

DefModule(d) ==
    CASE d = "BookLoader" -> <<"tests", ".", "t7">>
      [] d = "LoaderA"    -> <<"m1">>
      [] d = "LoaderB"    -> <<"m1">>
      [] d = "LoaderC"    -> <<"m2">>

DefName(d) ==
    CASE d = "BookLoader" -> <<"BookLoader">>
      [] d = "LoaderA"    -> <<"Loader">>
      [] d = "LoaderB"    -> <<"Loader">>
      [] d = "LoaderC"    -> <<"Loader">>

\* inspect.isclass(Base)
IsClass(d) == d \in {"BookLoader", "LoaderA", "LoaderB"}

\* get_class_field_annotations(Base): the declared configuration attributes
GetClassFieldAnnotations(d) ==
    IF d = "LoaderA" THEN <<"flag">> ELSE <<>>

\* f'{dependency.__module__}.{dependency.__name__}'
CacheKey(d) == DefModule(d) \o <<".">> \o DefName(d)

CacheKeys == {CacheKey(d) : d \in Defs}

\* the loader_filters tables a Resolver may be constructed with
FilterTables == { {}, {<<"LoaderA", "flag">>} }

(***************************************************************************)
(* The object graphs handed to resolve.                                    *)
(***************************************************************************)
Objects == {"S1", "S2", "S3", "T", "P", "Q", "Q2", "E", "G", "H", "K", "N", "W", "A"}
Colls   == {"LS", "LD", "LQ", "L0"}
Scalars == {"None", "v12", "vname", "vhello", "vscores", "k1", "k2", "k3",
            "b1", "b2", "b3", "x0"}

InitElems ==
    [c \in Colls |->
        CASE c = "LS" -> <<"S1", "S2", "S3">>
          [] c = "LD" -> <<"S1", "S1">>
          [] c = "LQ" -> <<"Q2", "v12">>
          [] c = "L0" -> <<>>]

Fld(n, v) == [name |-> n, value |-> v]

\* the data attributes of each object before resolve
InitFields(o) ==
    CASE o \in {"S1", "S2", "S3"} ->
            { Fld(<<"id">>, CASE o = "S1" -> "k1" [] o = "S2" -> "k2" [] o = "S3" -> "k3"),
              Fld(<<"books">>, "None") }
      [] o = "T" -> { Fld(<<"scores">>, "None"), Fld(<<"age">>, "None"),
                      Fld(<<"future">>, "None"), Fld(<<"chained">>, "None"),
                      Fld(<<"plain">>, "x0") }
      [] o = "P" -> { Fld(<<"child">>, "None"), Fld(<<"kids">>, "None"),
                      Fld(<<"total">>, "x0"), Fld(<<"count">>, "x0") }
      [] o \in {"Q", "Q2"} -> { Fld(<<"v">>, "None"), Fld(<<"sum">>, "x0") }
      [] o = "E" -> { Fld(<<"a">>, "None"), Fld(<<"c">>, "None"), Fld(<<"d">>, "x0") }
      [] o = "G" -> { Fld(<<"x">>, "None"), Fld(<<"y">>, "None") }
      [] o = "H" -> { Fld(<<"p">>, "None"), Fld(<<"q">>, "None"), Fld(<<"r">>, "None") }
      [] o = "K" -> { Fld(<<"a">>, "None"), Fld(<<"one">>, "x0"), Fld(<<"three">>, "x0") }
      [] o = "N" -> { Fld(<<"u">>, "None"), Fld(<<"w">>, "None"), Fld(<<"z">>, "None") }
      [] o = "W" -> { Fld(<<"m">>, "None"), Fld(<<"n">>, "None") }
      [] o = "A" -> { Fld(<<"e">>, "None"), Fld(<<"f">>, "x0") }

AttrNames(o) == { f.name : f \in InitFields(o) }

InitAttrs ==
    [o \in Objects |->
        [a \in AttrNames(o) |-> (CHOOSE f \in InitFields(o) : f.name = a).value]]

(***************************************************************************)
(* Resolver methods: name, __annotations__, the LoaderDepend defaults of   *)
(* the signature in order, and what the body does:                         *)
(*   plain  - def returning ret                                            *)
(*   coro   - async def returning ret without suspending                   *)
(*   future - def returning a future that a background task sets to ret    *)
(*   chain  - async def returning such a future                            *)
(*   load   - def returning loader.load(ret) on its first dependency       *)
(***************************************************************************)
Res(n, ann, deps, kind, ret) ==
    [name |-> n, annotations |-> ann, deps |-> deps, kind |-> kind, ret |-> ret]

\* core.iter_over_object_resolvers(target), in enumeration order
IterOverObjectResolvers(o) ==
    CASE o = "S1" -> << Res(<<"resolve_", "books">>, {}, <<"BookLoader">>, "load", "k1") >>
      [] o = "S2" -> << Res(<<"resolve_", "books">>, {}, <<"BookLoader">>, "load", "k2") >>
      [] o = "S3" -> << Res(<<"resolve_", "books">>, {}, <<"BookLoader">>, "load", "k3") >>
      [] o = "T"  -> << Res(<<"resolve_", "scores">>, {"return"}, <<>>, "coro", "vscores"),
                        Res(<<"resolve_", "age">>, {"return"}, <<>>, "plain", "v12"),
                        Res(<<"resolve_", "future">>, {"return"}, <<>>, "future", "vhello"),
                        Res(<<"resolve_", "chained">>, {"return"}, <<>>, "chain", "vname") >>
      [] o = "P"  -> << Res(<<"resolve_", "child">>, {"return"}, <<>>, "coro", "Q"),
                        Res(<<"resolve_", "kids">>, {"return"}, <<>>, "plain", "LQ") >>
      [] o \in {"Q", "Q2"} -> << Res(<<"resolve_", "v">>, {"return"}, <<>>, "future", "v12") >>
      [] o = "E"  -> << Res(<<"resolve_", "a">>, {"return"}, <<>>, "plain", "v12"),
                        Res(<<"resolve_", "b">>, {"return"}, <<>>, "plain", "vname"),
                        Res(<<"resolve_", "c">>, {"return"}, <<>>, "future", "vhello") >>
      [] o = "G"  -> << Res(<<"resolve_", "x">>, {"return"}, <<"LoaderA">>, "load", "k1"),
                        Res(<<"resolve_", "y">>, {"return"}, <<"LoaderA">>, "load", "k2") >>
      [] o = "H"  -> << Res(<<"resolve_", "p">>, {"return"}, <<"LoaderB">>, "load", "k1"),
                        Res(<<"resolve_", "q">>, {"return"}, <<"LoaderA">>, "load", "k2"),
                        Res(<<"resolve_", "r">>, {"return"}, <<"LoaderC">>, "load", "k3") >>
      [] o = "K"  -> << Res(<<"resolve_", "a">>, {"return"}, <<>>, "plain", "v12") >>
      [] o = "N"  -> << Res(<<"resolve_", "u">>, {"return"}, <<>>, "plain", "v12"),
                        Res(<<"resolve_", "w">>, {"loader"}, <<"LoaderC">>, "load", "k1"),
                        Res(<<"resolve_", "z">>, {}, <<>>, "plain", "vname") >>
      [] o = "W"  -> << Res(<<"resolve_", "m">>, {"return"}, <<>>, "future", "K"),
                        Res(<<"resolve_", "n">>, {"return"}, <<>>, "future", "G") >>
      [] o = "A"  -> << Res(<<"resolve_", "e">>, {"return"}, <<>>, "plain", "E") >>

\* core.iter_over_object_post_methods(target), in enumeration order
IterOverObjectPostMethods(o) ==
    CASE o = "P" -> << <<"post_", "total">>, <<"post_", "count">> >>
      [] o \in {"Q", "Q2"} -> << <<"post_", "sum">> >>
      [] o = "E" -> << <<"post_", "d">> >>
      [] o = "K" -> << <<"post_", "one">>, <<"post_", "two">>, <<"post_", "three">> >>
      [] o = "A" -> << <<"post_", "f">> >>
      [] OTHER   -> << >>

\* core.is_acceptable_type(target)
IsAcceptableType(v) == v \in Objects

\* isinstance(target, (list, tuple))
IsCollection(v) == v \in Colls

\* what batch_load_fn yields for one key
BatchValue(k) == CASE k = "k1" -> "b1" [] k = "k2" -> "b2" [] k = "k3" -> "b3"

\* the values a top-level resolve is called with
Roots == {"LS", "LD", "T", "P", "E", "G", "H", "K", "N", "W", "A", "L0", "v12"}

\* the values the application resolves more than once
Repeated == {"LS", "LD", "E", "G", "K", "N", "L0", "v12"}

Resolvers == {"R1", "R2"}

\* the values the tests hand to the plain resolve function
PlainRoots == {"LS", "T"}


(***************************************************************************)
(* State                                                                   *)
(***************************************************************************)
VARIABLES
    resolvers,  \* Resolver objects: ensure_type, loader_filters, ctx (the cache dict)
    calls,      \* top-level resolve calls: resolver, root, frame, status, result, err,
                \* the calls returned before it began, the attributes when it ended
    frames,     \* coroutine invocations of resolve and resolve_obj
    ready,      \* the event loop's FIFO queue of ready callbacks
    running,    \* the frame now executing, 0 when the loop is between callbacks
    ntodo,      \* callbacks the current loop iteration has still to run
    futures,    \* futures created by resolvers and by loader.load
    loaders,    \* every batching-unit instance ever constructed
    batches,    \* batch_load_fn invocations: inst, keys, futs, done
    attrs,      \* attribute values of the objects
    elems,      \* elements of the collections
    invoked,    \* history: resolver invocations and the instances bound to them
    hookLog,    \* history: post-method invocations and what they could observe
    failLog     \* history: frames in the order they raised

vars == <<resolvers, calls, frames, ready, running, ntodo, futures, loaders, batches,
          attrs, elems, invoked, hookLog, failLog>>

\* values of a resolver's return: a concrete value, a coroutine or a future
V(v)       == [tag |-> "val",  n |-> 0, v |-> v,  body |-> ""]
Coro(b, v) == [tag |-> "coro", n |-> 0, v |-> v,  body |-> b]
Fut(i)     == [tag |-> "fut",  n |-> i, v |-> "", body |-> ""]

NewFrame(kind, call, target, field, parent, mode) ==
    [kind |-> kind, call |-> call, target |-> target, field |-> field,
     parent |-> parent, mode |-> mode,
     pc |-> IF kind = "resolve" THEN "r_list" ELSE "o_exec",
     val |-> V("None"), status |-> "active", err |-> "", result |-> "",
     nfuts |-> 0, nfinished |-> 0, outerDone |-> FALSE, gerr |-> "", hook |-> 1,
     child |-> 0]

Entry(op, id) == [op |-> op, id |-> id]

\* Resolver.__init__: ctx defaults to one dict object, empty at construction
NewResolver(loader_filters, ensure_type) ==
    [ensure_type |-> ensure_type, loader_filters |-> loader_filters,
     ctx |-> [k \in CacheKeys |-> 0]]

\* two Resolver objects constructed with the same arguments
Init ==
    /\ \E t \in FilterTables, e \in BOOLEAN :
          resolvers = [r \in 1..Cardinality(Resolvers) |-> NewResolver(t, e)]
    /\ calls = <<>>
    /\ frames = <<>>
    /\ ready = <<>>
    /\ running = 0
    /\ ntodo = 0
    /\ futures = <<>>
    /\ loaders = <<>>
    /\ batches = <<>>
    /\ attrs = InitAttrs
    /\ elems = InitElems
    /\ invoked = <<>>
    /\ hookLog = <<>>
    /\ failLog = <<>>

\* the application starts a call when the loop is idle and no call is under
\* way, or together with calls it has just started
CanStart ==
    /\ running = 0 /\ ntodo = 0
    /\ \/ /\ ready = <<>>
          /\ \A c \in 1..Len(calls) : calls[c].status # "running"
       \/ /\ ready # <<>> /\ Len(ready) < MaxConcurrent
          /\ \A i \in 1..Len(ready) :
                /\ ready[i].op = "step"
                /\ frames[ready[i].id].mode = "top"
                /\ frames[ready[i].id].pc = "r_list"

\* the application awaits resolver.resolve(root) in a task of its own
StartCall(r, root) ==
    /\ CanStart
    /\ Len(calls) < MaxCalls
    /\ r \in 1..Len(resolvers)
    /\ \A c \in 1..Len(calls) : calls[c].root = root /\ root \in Repeated
    /\ LET c == Len(calls) + 1
           f == Len(frames) + 1
       IN /\ calls' = Append(calls, [resolver |-> r, root |-> root, frame |-> f,
                                     status |-> "running", result |-> "", err |-> "",
                                     prior |-> {p \in 1..Len(calls) : calls[p].status = "returned"},
                                     after |-> attrs])
          /\ frames' = Append(frames, NewFrame("resolve", c, root, 0, 0, "top"))
          /\ ready' = Append(ready, Entry("step", f))
    /\ UNCHANGED <<ntodo, resolvers, running, futures, loaders, batches, attrs, elems,
                   invoked, hookLog, failLog>>

\* the application awaits the plain resolve(root): a call without a Resolver
\* object, hence without a cache and without a configuration table
StartPlain(root) ==
    /\ CanStart
    /\ Len(calls) < MaxCalls
    /\ root \in PlainRoots
    /\ \A c \in 1..Len(calls) : calls[c].root = root /\ root \in Repeated
    /\ LET c == Len(calls) + 1
           f == Len(frames) + 1
       IN /\ calls' = Append(calls, [resolver |-> 0, root |-> root, frame |-> f,
                                     status |-> "running", result |-> "", err |-> "",
                                     prior |-> {p \in 1..Len(calls) : calls[p].status = "returned"},
                                     after |-> attrs])
          /\ frames' = Append(frames, NewFrame("resolve", c, root, 0, 0, "top"))
          /\ ready' = Append(ready, Entry("step", f))
    /\ UNCHANGED <<ntodo, resolvers, running, futures, loaders, batches, attrs, elems,
                   invoked, hookLog, failLog>>

(***************************************************************************)
(* The end of a coroutine.  A task's completion schedules gather's done    *)
(* callback; an inline coroutine hands control back to its caller; the top *)
(* coroutine completes the application's await.                            *)
(***************************************************************************)
Finish(f, fr) ==
    /\ frames' = fr
    /\ running' = IF fr[f].mode = "inline" THEN fr[f].parent ELSE 0
    /\ ready' = IF fr[f].mode = "task" THEN Append(ready, Entry("done", f)) ELSE ready
    /\ calls' = IF fr[f].mode = "top"
                THEN [calls EXCEPT ![fr[f].call] =
                        [@ EXCEPT !.status = IF fr[f].status = "done" THEN "returned" ELSE "failed",
                                  !.result = fr[f].result, !.err = fr[f].err,
                                  !.after = attrs]]
                ELSE calls

Raise(f, e) ==
    /\ Finish(f, [frames EXCEPT ![f] = [@ EXCEPT !.status = "failed", !.err = e, !.pc = "raised"]])
    /\ failLog' = Append(failLog, [frame |-> f, err |-> e])


(***************************************************************************)
(* The event loop.  One iteration (_run_once) runs the callbacks that were *)
(* ready when it began; timers and I/O are served between iterations.      *)
(***************************************************************************)
\* the loop takes the next ready callback of this iteration, or begins one
Take(op) ==
    /\ running = 0 /\ ready # <<>> /\ Head(ready).op = op
    /\ ntodo' = (IF ntodo = 0 THEN Len(ready) ELSE ntodo) - 1

\* a timer or I/O event is served
Idle == running = 0 /\ ntodo = 0

\* a task's first step or its wake-up: the task runs
Step ==
    /\ Take("step")
    /\ running' = Head(ready).id
    /\ ready' = Tail(ready)
    /\ UNCHANGED <<resolvers, calls, frames, futures, loaders, batches, attrs, elems,
                   invoked, hookLog, failLog>>

\* a gather that settles at the first child to finish instead of the last
GatherDone_Mut ==
    /\ Take("done")
    /\ LET ch == Head(ready).id
           p  == frames[ch].parent
           n  == frames[p].nfinished + 1
       IN IF frames[p].outerDone
          THEN /\ frames' = [frames EXCEPT ![p].nfinished = n]
               /\ ready' = Tail(ready)
          ELSE IF frames[ch].status = "failed"
          THEN /\ frames' = [frames EXCEPT ![p] = [@ EXCEPT !.nfinished = n, !.outerDone = TRUE,
                                                            !.gerr = frames[ch].err]]
               /\ ready' = Append(Tail(ready), Entry("step", p))
          ELSE /\ frames' = [frames EXCEPT ![p] = [@ EXCEPT !.nfinished = n, !.outerDone = TRUE]]
               /\ ready' = Append(Tail(ready), Entry("step", p))
    /\ UNCHANGED <<resolvers, calls, running, futures, loaders, batches, attrs, elems,
                   invoked, hookLog, failLog>>

\* asyncio.gather's _done_callback for one child (return_exceptions=False):
\* the first child exception settles the outer future, later ones are dropped
GatherDone ==
    /\ Take("done")
    /\ LET ch == Head(ready).id
           p  == frames[ch].parent
           n  == frames[p].nfinished + 1
       IN IF frames[p].outerDone
          THEN /\ frames' = [frames EXCEPT ![p].nfinished = n]
               /\ ready' = Tail(ready)
          ELSE IF frames[ch].status = "failed"
          THEN /\ frames' = [frames EXCEPT ![p] = [@ EXCEPT !.nfinished = n, !.outerDone = TRUE,
                                                            !.gerr = frames[ch].err]]
               /\ ready' = Append(Tail(ready), Entry("step", p))
          ELSE IF n = frames[p].nfuts
          THEN /\ frames' = [frames EXCEPT ![p] = [@ EXCEPT !.nfinished = n, !.outerDone = TRUE]]
               /\ ready' = Append(Tail(ready), Entry("step", p))
          ELSE /\ frames' = [frames EXCEPT ![p].nfinished = n]
               /\ ready' = Tail(ready)
    /\ UNCHANGED <<resolvers, calls, running, futures, loaders, batches, attrs, elems,
                   invoked, hookLog, failLog>>

\* a gather whose field tasks are all given the first field
Spawn_Mut(f, kind, targets) ==
    LET n    == Len(targets)
        base == Len(frames)
    IN /\ frames' = [frames EXCEPT ![f] = [@ EXCEPT !.nfuts = n, !.nfinished = 0,
                                                    !.outerDone = FALSE, !.gerr = "",
                                                    !.pc = IF kind = "resolve" THEN "r_list_wait"
                                                           ELSE "r_obj_wait"]]
                    \o [i \in 1..n |->
                          IF kind = "resolve"
                          THEN NewFrame("resolve", frames[f].call, targets[i], 0, f, "task")
                          ELSE NewFrame("resolve_obj", frames[f].call, frames[f].target, 1, f, "task")]
       /\ ready' = ready \o [i \in 1..n |-> Entry("step", base + i)]
       /\ running' = 0

\* the frames gather creates, one task per coroutine, each scheduled at creation
Spawn(f, kind, targets) ==
    LET n    == Len(targets)
        base == Len(frames)
    IN /\ frames' = [frames EXCEPT ![f] = [@ EXCEPT !.nfuts = n, !.nfinished = 0,
                                                    !.outerDone = FALSE, !.gerr = "",
                                                    !.pc = IF kind = "resolve" THEN "r_list_wait"
                                                           ELSE "r_obj_wait"]]
                    \o [i \in 1..n |->
                          IF kind = "resolve"
                          THEN NewFrame("resolve", frames[f].call, targets[i], 0, f, "task")
                          ELSE NewFrame("resolve_obj", frames[f].call, frames[f].target, i, f, "task")]
       /\ ready' = ready \o [i \in 1..n |-> Entry("step", base + i)]
       /\ running' = 0

(***************************************************************************)
(* Resolver.resolve                                                        *)
(***************************************************************************)
\* lines 112-113: a collection's elements are resolved by gather
ResolveList(f) ==
    /\ running = f /\ frames[f].kind = "resolve" /\ frames[f].pc = "r_list"
    /\ IF IsCollection(frames[f].target) /\ Len(elems[frames[f].target]) > 0
       THEN Spawn(f, "resolve", elems[frames[f].target])
       ELSE /\ frames' = [frames EXCEPT ![f].pc = "r_obj"]
            /\ UNCHANGED <<ready, running>>
    /\ UNCHANGED <<ntodo, resolvers, calls, futures, loaders, batches, attrs, elems,
                   invoked, hookLog, failLog>>

\* a resume that drops the exception of the elements
ResolveListWake_Mut(f) ==
    /\ running = f /\ frames[f].pc = "r_list_wait"
    /\ frames' = [frames EXCEPT ![f].pc = "r_obj"]
    /\ UNCHANGED <<ready, running, calls, failLog>>
    /\ UNCHANGED <<ntodo, resolvers, futures, loaders, batches, attrs, elems, invoked, hookLog>>

\* line 113 resumed: gather's result or its first exception
ResolveListWake(f) ==
    /\ running = f /\ frames[f].pc = "r_list_wait"
    /\ IF frames[f].gerr # ""
       THEN Raise(f, frames[f].gerr)
       ELSE /\ frames' = [frames EXCEPT ![f].pc = "r_obj"]
            /\ UNCHANGED <<ready, running, calls, failLog>>
    /\ UNCHANGED <<ntodo, resolvers, futures, loaders, batches, attrs, elems, invoked, hookLog>>

\* field tasks that are started and not waited for
ResolveObject_Mut(f) ==
    /\ running = f /\ frames[f].kind = "resolve" /\ frames[f].pc = "r_obj"
    /\ IF ~IsAcceptableType(frames[f].target)
       THEN /\ frames' = [frames EXCEPT ![f].pc = "r_ret"]
            /\ UNCHANGED <<ready, running>>
       ELSE LET n    == Len(IterOverObjectResolvers(frames[f].target))
                base == Len(frames)
            IN /\ frames' = [frames EXCEPT ![f].pc = "r_post"]
                    \o [i \in 1..n |->
                          NewFrame("resolve_obj", frames[f].call, frames[f].target, i, f, "task")]
               /\ ready' = ready \o [i \in 1..n |-> Entry("step", base + i)]
               /\ UNCHANGED running
    /\ UNCHANGED <<ntodo, resolvers, calls, futures, loaders, batches, attrs, elems,
                   invoked, hookLog, failLog>>

\* lines 115-117: an object's resolver fields are resolved by gather
ResolveObject(f) ==
    /\ running = f /\ frames[f].kind = "resolve" /\ frames[f].pc = "r_obj"
    /\ IF ~IsAcceptableType(frames[f].target)
       THEN /\ frames' = [frames EXCEPT ![f].pc = "r_ret"]
            /\ UNCHANGED <<ready, running>>
       ELSE IF Len(IterOverObjectResolvers(frames[f].target)) = 0
       THEN /\ frames' = [frames EXCEPT ![f].pc = "r_post"]
            /\ UNCHANGED <<ready, running>>
       ELSE Spawn(f, "resolve_obj", IterOverObjectResolvers(frames[f].target))
    /\ UNCHANGED <<ntodo, resolvers, calls, futures, loaders, batches, attrs, elems,
                   invoked, hookLog, failLog>>

\* a resume that drops the exception gather reports
ResolveObjectWake_Mut(f) ==
    /\ running = f /\ frames[f].pc = "r_obj_wait"
    /\ frames' = [frames EXCEPT ![f].pc = "r_post"]
    /\ UNCHANGED <<ready, running, calls, failLog>>
    /\ UNCHANGED <<ntodo, resolvers, futures, loaders, batches, attrs, elems, invoked, hookLog>>

\* line 116 resumed
ResolveObjectWake(f) ==
    /\ running = f /\ frames[f].pc = "r_obj_wait"
    /\ IF frames[f].gerr # ""
       THEN Raise(f, frames[f].gerr)
       ELSE /\ frames' = [frames EXCEPT ![f].pc = "r_post"]
            /\ UNCHANGED <<ready, running, calls, failLog>>
    /\ UNCHANGED <<ntodo, resolvers, futures, loaders, batches, attrs, elems, invoked, hookLog>>

\* hasattr(target, name)
HasAttr(o, name) == name \in DOMAIN attrs[o]

RECURSIVE IsUnder(_, _)
\* frame g was started, directly or not, by frame f
IsUnder(g, f) ==
    IF g = f THEN TRUE
    ELSE IF frames[g].parent = 0 THEN FALSE
    ELSE IsUnder(frames[g].parent, f)

\* a loop over the post methods that does not check the target attribute
PostMethod_Mut(f) ==
    /\ running = f /\ frames[f].pc = "r_post"
    /\ LET o     == frames[f].target
           posts == IterOverObjectPostMethods(o)
           i     == frames[f].hook
       IN IF i > Len(posts)
          THEN /\ frames' = [frames EXCEPT ![f].pc = "r_ret"]
               /\ UNCHANGED <<ready, running, calls, failLog, hookLog>>
          ELSE /\ frames' = [frames EXCEPT ![f].hook = i + 1]
               /\ hookLog' = Append(hookLog,
                     [call |-> frames[f].call, frame |-> f, obj |-> o, hook |-> i,
                      seen |-> attrs,
                      open |-> {g \in DOMAIN frames :
                                   g # f /\ IsUnder(g, f) /\ frames[g].status # "done"}])
               /\ UNCHANGED <<ready, running, calls, failLog>>
    /\ UNCHANGED <<ntodo, resolvers, futures, loaders, batches, attrs, elems, invoked>>

\* lines 120-126: one iteration of the loop over the post methods
PostMethod(f) ==
    /\ running = f /\ frames[f].pc = "r_post"
    /\ LET o     == frames[f].target
           posts == IterOverObjectPostMethods(o)
           i     == frames[f].hook
       IN IF i > Len(posts)
          THEN /\ frames' = [frames EXCEPT ![f].pc = "r_ret"]
               /\ UNCHANGED <<ready, running, calls, failLog, hookLog>>
          ELSE IF ~HasAttr(o, Replace(posts[i], POST_PREFIX))
          THEN /\ Raise(f, "ResolverTargetAttrNotFound")
               /\ UNCHANGED hookLog
          ELSE /\ frames' = [frames EXCEPT ![f].hook = i + 1]
               /\ hookLog' = Append(hookLog,
                     [call |-> frames[f].call, frame |-> f, obj |-> o, hook |-> i,
                      seen |-> attrs,
                      open |-> {g \in DOMAIN frames :
                                   g # f /\ IsUnder(g, f) /\ frames[g].status # "done"}])
               /\ UNCHANGED <<ready, running, calls, failLog>>
    /\ UNCHANGED <<ntodo, resolvers, futures, loaders, batches, attrs, elems, invoked>>

\* a resolve that returns nothing
Return_Mut(f) ==
    /\ running = f /\ frames[f].pc = "r_ret"
    /\ Finish(f, [frames EXCEPT ![f] = [@ EXCEPT !.status = "done", !.pc = "returned",
                                                 !.result = "None"]])
    /\ UNCHANGED <<ntodo, resolvers, futures, loaders, batches, attrs, elems,
                   invoked, hookLog, failLog>>

\* line 128: return target
Return(f) ==
    /\ running = f /\ frames[f].pc = "r_ret"
    /\ Finish(f, [frames EXCEPT ![f] = [@ EXCEPT !.status = "done", !.pc = "returned",
                                                 !.result = frames[f].target]])
    /\ UNCHANGED <<ntodo, resolvers, futures, loaders, batches, attrs, elems,
                   invoked, hookLog, failLog>>


(***************************************************************************)
(* The batching primitive (aiodataloader.DataLoader), at its interface     *)
(***************************************************************************)
\* the future loader.load(key) returns: the cached one, or a new one that is
\* queued; the first key queued schedules the dispatch with call_soon
LoadFuture(ls, inst, key) ==
    IF \E pr \in ls[inst].promises : pr.key = key
    THEN (CHOOSE pr \in ls[inst].promises : pr.key = key).fut
    ELSE Len(futures) + 1

LoadHit(ls, inst, key) == \E pr \in ls[inst].promises : pr.key = key

\* the callback call_soon runs: ensure_future(dispatch()) creates the task
Dispatch ==
    /\ Take("dispatch")
    /\ ready' = Append(Tail(ready), Entry("dispatch_task", Head(ready).id))
    /\ UNCHANGED <<resolvers, calls, frames, running, futures, loaders, batches, attrs,
                   elems, invoked, hookLog, failLog>>

\* dispatch_queue(loader): one batch_load_fn call with every key queued so far
DispatchQueue ==
    /\ Take("dispatch_task")
    /\ LET i == Head(ready).id
       IN /\ batches' = Append(batches,
                [inst |-> i, keys |-> loaders[i].queue, done |-> FALSE,
                 futs |-> [j \in 1..Len(loaders[i].queue) |->
                             (CHOOSE pr \in loaders[i].promises :
                                  pr.key = loaders[i].queue[j]).fut]])
          /\ loaders' = [loaders EXCEPT ![i].queue = <<>>]
    /\ ready' = Tail(ready)
    /\ UNCHANGED <<resolvers, calls, frames, running, futures, attrs, elems,
                   invoked, hookLog, failLog>>

RECURSIVE Waiters(_, _)
\* the wake-ups of the frames awaiting the futures fs, in order
Waiters(fs, i) ==
    IF i > Len(fs) THEN <<>>
    ELSE [j \in 1..Len(futures[fs[i]].waiters) |-> Entry("step", futures[fs[i]].waiters[j])]
         \o Waiters(fs, i + 1)

\* batch_load_fn has returned: every future of the batch gets its value
BatchDone(b) ==
    /\ Idle
    /\ b \in 1..Len(batches) /\ ~batches[b].done
    /\ batches' = [batches EXCEPT ![b].done = TRUE]
    /\ futures' = [i \in 1..Len(futures) |->
                      IF \E j \in 1..Len(batches[b].futs) : batches[b].futs[j] = i
                      THEN [futures[i] EXCEPT !.done = TRUE, !.waiters = <<>>]
                      ELSE futures[i]]
    /\ ready' = ready \o Waiters(batches[b].futs, 1)
    /\ UNCHANGED <<ntodo, resolvers, calls, frames, running, loaders, attrs, elems,
                   invoked, hookLog, failLog>>

\* the background task of a resolver sets its future (test_4: set_after)
SetAfter(i) ==
    /\ Idle
    /\ i \in 1..Len(futures) /\ ~futures[i].done /\ futures[i].src = "task"
    /\ futures' = [futures EXCEPT ![i] = [@ EXCEPT !.done = TRUE, !.waiters = <<>>]]
    /\ ready' = ready \o Waiters(<<i>>, 1)
    /\ UNCHANGED <<ntodo, resolvers, calls, frames, running, loaders, batches, attrs, elems,
                   invoked, hookLog, failLog>>

NewFuture(src, v) == [done |-> FALSE, value |-> v, waiters |-> <<>>, src |-> src]


(***************************************************************************)
(* Resolver.exec_method                                                    *)
(***************************************************************************)
NewLoader(d, call, f, config) ==
    [def |-> d, call |-> call, frame |-> f, config |-> config,
     queue |-> <<>>, promises |-> {}]

\* lines 72-77: the declared attributes assigned before the first KeyError
Assigned(d, table) ==
    LET fields == GetClassFieldAnnotations(d)
        bad    == {i \in 1..Len(fields) : <<d, fields[i]>> \notin table}
    IN {fields[i] : i \in {j \in 1..Len(fields) : \A k \in bad : j < k}}

ConfigMissing(d, table) ==
    \E i \in 1..Len(GetClassFieldAnnotations(d)) :
        <<d, GetClassFieldAnnotations(d)[i]>> \notin table

\* a provider that never consults the cache
ProvisionOne_Mut(st, d, call, f, table) ==
    LET key == CacheKey(d)
        new == Len(st.loaders) + 1
    IN IF IsClass(d) /\ ConfigMissing(d, table)
       THEN [st EXCEPT !.loaders = Append(@, NewLoader(d, call, f, Assigned(d, table))),
                       !.err = "LoaderFieldNotProvidedError"]
       ELSE [st EXCEPT !.loaders = Append(@, NewLoader(d, call, f,
                                      IF IsClass(d) THEN Assigned(d, table) ELSE {})),
                       !.ctx = [@ EXCEPT ![key] = new],
                       !.params = Append(@, new)]

\* lines 47-85 for one parameter whose default is a Depends
ProvisionOne(st, d, call, f, table) ==
    LET key == CacheKey(d)
        hit == st.ctx[key]
        new == Len(st.loaders) + 1
    IN IF hit # 0
       THEN [st EXCEPT !.params = Append(@, hit)]
       ELSE IF IsClass(d) /\ ConfigMissing(d, table)
       THEN [st EXCEPT !.loaders = Append(@, NewLoader(d, call, f, Assigned(d, table))),
                       !.err = "LoaderFieldNotProvidedError"]
       ELSE [st EXCEPT !.loaders = Append(@, NewLoader(d, call, f,
                                      IF IsClass(d) THEN Assigned(d, table) ELSE {})),
                       !.ctx = [@ EXCEPT ![key] = new],
                       !.params = Append(@, new)]

RECURSIVE Provision(_, _, _, _, _, _)
\* lines 43-85: the loop over the parameters, left at the first error
Provision(deps, i, st, call, f, table) ==
    IF i > Len(deps) \/ st.err # "" THEN st
    ELSE Provision(deps, i + 1, ProvisionOne(st, deps[i], call, f, table), call, f, table)

\* lines 89-91: item = getattr(target, field); val = self.exec_method(item)
ExecMethod(f) ==
    /\ running = f /\ frames[f].kind = "resolve_obj" /\ frames[f].pc = "o_exec"
    /\ calls[frames[f].call].resolver # 0
    /\ LET c   == frames[f].call
           r   == calls[c].resolver
           o   == frames[f].target
           res == IterOverObjectResolvers(o)[frames[f].field]
           st  == Provision(res.deps, 1,
                            [ctx |-> resolvers[r].ctx, loaders |-> loaders,
                             params |-> <<>>, err |-> ""],
                            c, f, resolvers[r].loader_filters)
           nf  == Len(futures) + 1
       IN /\ resolvers' = [resolvers EXCEPT ![r].ctx = st.ctx]
          /\ IF st.err # ""
             THEN /\ loaders' = st.loaders
                  /\ Raise(f, st.err)
                  /\ UNCHANGED <<futures, invoked>>
             ELSE /\ invoked' = Append(invoked,
                        [call |-> c, frame |-> f, obj |-> o, field |-> frames[f].field,
                         params |-> st.params])
                  /\ UNCHANGED <<running, calls, failLog>>
                  /\ CASE res.kind = "plain" ->
                            /\ frames' = [frames EXCEPT ![f] = [@ EXCEPT !.val = V(res.ret), !.pc = "o_check"]]
                            /\ loaders' = st.loaders
                            /\ UNCHANGED <<futures, ready>>
                       [] res.kind = "coro" ->
                            /\ frames' = [frames EXCEPT ![f] = [@ EXCEPT !.val = Coro("ret", res.ret), !.pc = "o_check"]]
                            /\ loaders' = st.loaders
                            /\ UNCHANGED <<futures, ready>>
                       [] res.kind = "chain" ->
                            /\ frames' = [frames EXCEPT ![f] = [@ EXCEPT !.val = Coro("fut", res.ret), !.pc = "o_check"]]
                            /\ loaders' = st.loaders
                            /\ UNCHANGED <<futures, ready>>
                       [] res.kind = "future" ->
                            /\ frames' = [frames EXCEPT ![f] = [@ EXCEPT !.val = Fut(nf), !.pc = "o_check"]]
                            /\ futures' = Append(futures, NewFuture("task", res.ret))
                            /\ loaders' = st.loaders
                            /\ UNCHANGED ready
                       [] res.kind = "load" ->
                            LET inst == st.params[1]
                                key  == res.ret
                            IN IF LoadHit(st.loaders, inst, key)
                               THEN /\ frames' = [frames EXCEPT ![f] = [@ EXCEPT
                                                    !.val = Fut(LoadFuture(st.loaders, inst, key)),
                                                    !.pc = "o_check"]]
                                    /\ loaders' = st.loaders
                                    /\ UNCHANGED <<futures, ready>>
                               ELSE /\ frames' = [frames EXCEPT ![f] = [@ EXCEPT !.val = Fut(nf), !.pc = "o_check"]]
                                    /\ futures' = Append(futures, NewFuture("load", BatchValue(key)))
                                    /\ loaders' = [st.loaders EXCEPT ![inst] = [@ EXCEPT
                                                    !.promises = @ \cup {[key |-> key, fut |-> nf]},
                                                    !.queue = Append(@, key)]]
                                    /\ ready' = IF Len(st.loaders[inst].queue) = 0
                                                THEN Append(ready, Entry("dispatch", inst))
                                                ELSE ready
    /\ UNCHANGED <<ntodo, batches, attrs, elems, hookLog>>

\* the plain resolve function invoking a resolver: there is no invocation
\* context to provision from, so a method that declares a LoaderDepend
\* parameter cannot be resolved; any other method is called without arguments
PlainExec(f) ==
    /\ running = f /\ frames[f].kind = "resolve_obj" /\ frames[f].pc = "o_exec"
    /\ calls[frames[f].call].resolver = 0
    /\ LET o   == frames[f].target
           res == IterOverObjectResolvers(o)[frames[f].field]
           nf  == Len(futures) + 1
       IN IF Len(res.deps) > 0
          THEN /\ Raise(f, "DataloaderDependCantBeResolved")
               /\ UNCHANGED <<futures, invoked>>
          ELSE /\ invoked' = Append(invoked,
                     [call |-> frames[f].call, frame |-> f, obj |-> o,
                      field |-> frames[f].field, params |-> <<>>])
               /\ UNCHANGED <<running, calls, failLog, ready>>
               /\ CASE res.kind = "plain" ->
                         /\ frames' = [frames EXCEPT ![f] = [@ EXCEPT !.val = V(res.ret), !.pc = "o_check"]]
                         /\ UNCHANGED futures
                    [] res.kind = "coro" ->
                         /\ frames' = [frames EXCEPT ![f] = [@ EXCEPT !.val = Coro("ret", res.ret), !.pc = "o_check"]]
                         /\ UNCHANGED futures
                    [] res.kind = "chain" ->
                         /\ frames' = [frames EXCEPT ![f] = [@ EXCEPT !.val = Coro("fut", res.ret), !.pc = "o_check"]]
                         /\ UNCHANGED futures
                    [] res.kind = "future" ->
                         /\ frames' = [frames EXCEPT ![f] = [@ EXCEPT !.val = Fut(nf), !.pc = "o_check"]]
                         /\ futures' = Append(futures, NewFuture("task", res.ret))
    /\ UNCHANGED <<ntodo, resolvers, loaders, batches, attrs, elems, hookLog>>


(***************************************************************************)
(* Resolver.resolve_obj                                                    *)
(***************************************************************************)
\* line 90: str(field).replace(PREFIX, '')
TargetAttrName(o, i) == Replace(IterOverObjectResolvers(o)[i].name, PREFIX)

\* a check that also rejects a target attribute that already holds a value
CheckTarget_Mut(f) ==
    /\ running = f /\ frames[f].pc = "o_check"
    /\ LET o   == frames[f].target
           res == IterOverObjectResolvers(o)[frames[f].field]
           r   == calls[frames[f].call].resolver
       IN IF ~HasAttr(o, TargetAttrName(o, frames[f].field))
             \/ attrs[o][TargetAttrName(o, frames[f].field)] # "None"
          THEN Raise(f, "ResolverTargetAttrNotFound")
          ELSE IF r # 0 /\ resolvers[r].ensure_type /\ res.annotations = {}
          THEN Raise(f, "MissingAnnotationError")
          ELSE /\ frames' = [frames EXCEPT ![f].pc = "o_await"]
               /\ UNCHANGED <<ready, running, calls, failLog>>
    /\ UNCHANGED <<ntodo, resolvers, futures, loaders, batches, attrs, elems, invoked, hookLog>>

\* lines 93-98: the target attribute check, then the annotation check
CheckTarget(f) ==
    /\ running = f /\ frames[f].pc = "o_check"
    /\ LET o   == frames[f].target
           res == IterOverObjectResolvers(o)[frames[f].field]
           r   == calls[frames[f].call].resolver
       IN IF ~HasAttr(o, TargetAttrName(o, frames[f].field))
          THEN Raise(f, "ResolverTargetAttrNotFound")
          ELSE IF r # 0 /\ resolvers[r].ensure_type /\ res.annotations = {}
          THEN Raise(f, "MissingAnnotationError")
          ELSE /\ frames' = [frames EXCEPT ![f].pc = "o_await"]
               /\ UNCHANGED <<ready, running, calls, failLog>>
    /\ UNCHANGED <<ntodo, resolvers, futures, loaders, batches, attrs, elems, invoked, hookLog>>

\* a loop condition that forgets futures
IsAwaitable_Mut(val) == val.tag = "coro"

\* line 100: iscoroutine(val) or asyncio.isfuture(val)
IsAwaitable(val) == val.tag = "coro" \/ val.tag = "fut"

\* lines 100-101: one turn of the loop; awaiting a pending future suspends
AwaitVal(f) ==
    /\ running = f /\ frames[f].pc = "o_await"
    /\ LET val == frames[f].val
       IN IF ~IsAwaitable(val)
          THEN /\ frames' = [frames EXCEPT ![f].pc = "o_resolve"]
               /\ UNCHANGED <<futures, running>>
          ELSE IF val.tag = "coro"
          THEN IF val.body = "fut"
               THEN /\ futures' = Append(futures, NewFuture("task", val.v))
                    /\ frames' = [frames EXCEPT ![f].val = Fut(Len(futures) + 1)]
                    /\ UNCHANGED running
               ELSE /\ frames' = [frames EXCEPT ![f].val = V(val.v)]
                    /\ UNCHANGED <<futures, running>>
          ELSE IF futures[val.n].done
          THEN /\ frames' = [frames EXCEPT ![f].val = V(futures[val.n].value)]
               /\ UNCHANGED <<futures, running>>
          ELSE /\ futures' = [futures EXCEPT ![val.n].waiters = Append(@, f)]
               /\ running' = 0
               /\ UNCHANGED frames
    /\ UNCHANGED <<ntodo, resolvers, calls, ready, loaders, batches, attrs, elems,
                   invoked, hookLog, failLog>>

\* the object a value stands for: a concrete value, or an awaitable left as it is
Ref(val) ==
    CASE val.tag = "val"  -> val.v
      [] val.tag = "coro" -> "<coroutine>"
      [] val.tag = "fut"  -> "<future>"

\* line 104: val = await self.resolve(val), run inside this task
CallResolve(f) ==
    /\ running = f /\ frames[f].pc = "o_resolve"
    /\ LET g == Len(frames) + 1
       IN /\ frames' = Append([frames EXCEPT ![f] = [@ EXCEPT !.pc = "o_resolve_wait", !.child = g]],
                              NewFrame("resolve", frames[f].call, Ref(frames[f].val), 0, f, "inline"))
          /\ running' = g
    /\ UNCHANGED <<ntodo, resolvers, calls, ready, futures, loaders, batches, attrs, elems,
                   invoked, hookLog, failLog>>

\* a step that takes a nested resolve that raised for one that returned
ResolveReturned_Mut(f) ==
    /\ running = f /\ frames[f].pc = "o_resolve_wait"
    /\ frames' = [frames EXCEPT ![f].pc = "o_set"]
    /\ UNCHANGED <<ready, running, calls, failLog>>
    /\ UNCHANGED <<ntodo, resolvers, futures, loaders, batches, attrs, elems, invoked, hookLog>>

\* line 104 completed: the nested resolve returned or raised
ResolveReturned(f) ==
    /\ running = f /\ frames[f].pc = "o_resolve_wait"
    /\ LET g == frames[f].child
       IN IF frames[g].status = "failed"
          THEN Raise(f, frames[g].err)
          ELSE /\ frames' = [frames EXCEPT ![f] = [@ EXCEPT !.val = V(frames[g].result), !.pc = "o_set"]]
               /\ UNCHANGED <<ready, running, calls, failLog>>
    /\ UNCHANGED <<ntodo, resolvers, futures, loaders, batches, attrs, elems, invoked, hookLog>>

\* a write that uses the name of the last resolver enumerated
SetAttr_Mut(f) ==
    /\ running = f /\ frames[f].pc = "o_set"
    /\ attrs' = [attrs EXCEPT ![frames[f].target][TargetAttrName(frames[f].target,
                                      Len(IterOverObjectResolvers(frames[f].target)))]
                                  = Ref(frames[f].val)]
    /\ Finish(f, [frames EXCEPT ![f] = [@ EXCEPT !.status = "done", !.pc = "returned"]])
    /\ UNCHANGED <<ntodo, resolvers, futures, loaders, batches, elems, invoked, hookLog, failLog>>

\* line 106: target.__setattr__(target_attr_name, val)
SetAttr(f) ==
    /\ running = f /\ frames[f].pc = "o_set"
    /\ attrs' = [attrs EXCEPT ![frames[f].target][TargetAttrName(frames[f].target, frames[f].field)]
                                  = Ref(frames[f].val)]
    /\ Finish(f, [frames EXCEPT ![f] = [@ EXCEPT !.status = "done", !.pc = "returned"]])
    /\ UNCHANGED <<ntodo, resolvers, futures, loaders, batches, elems, invoked, hookLog, failLog>>

(***************************************************************************)
(* Specification                                                           *)
(***************************************************************************)
Frames == 1..Len(frames)

Next ==
    \/ \E r \in 1..Cardinality(Resolvers), root \in Roots : StartCall(r, root)
    \/ \E root \in PlainRoots : StartPlain(root)
    \/ Step
    \/ GatherDone
    \/ Dispatch
    \/ DispatchQueue
    \/ \E b \in 1..Len(batches) : BatchDone(b)
    \/ \E i \in 1..Len(futures) : SetAfter(i)
    \/ \E f \in Frames : ResolveList(f)
    \/ \E f \in Frames : ResolveListWake(f)
    \/ \E f \in Frames : ResolveObject(f)
    \/ \E f \in Frames : ResolveObjectWake(f)
    \/ \E f \in Frames : PostMethod(f)
    \/ \E f \in Frames : Return(f)
    \/ \E f \in Frames : ExecMethod(f)
    \/ \E f \in Frames : PlainExec(f)
    \/ \E f \in Frames : CheckTarget(f)
    \/ \E f \in Frames : AwaitVal(f)
    \/ \E f \in Frames : CallResolve(f)
    \/ \E f \in Frames : ResolveReturned(f)
    \/ \E f \in Frames : SetAttr(f)

Spec == Init /\ [][Next]_vars


(***************************************************************************)
(* Vocabulary of the properties                                            *)
(***************************************************************************)
Calls == 1..Len(calls)

Loaders == 1..Len(loaders)

Invoked == 1..Len(invoked)

\* the resolver method a resolve_obj frame or an invocation record is about
ResolverOf(o, i) == IterOverObjectResolvers(o)[i]

\* the concrete value a resolver's result settles to
SettledValue(res) == IF res.kind = "load" THEN BatchValue(res.ret) ELSE res.ret

\* the definitions a resolver declares as dependencies
Declares(res) == {res.deps[k] : k \in 1..Len(res.deps)}

\* construction of an instance completed: every declared attribute was assigned
Constructed(i) ==
    loaders[i].config = {GetClassFieldAnnotations(loaders[i].def)[k] :
                            k \in 1..Len(GetClassFieldAnnotations(loaders[i].def))}

(***************************************************************************)
(* C1: within one top-level resolve call, for every batching-unit          *)
(* definition that resolvers declare, exactly one instance is constructed  *)
(* and every resolver declaring it is invoked with that instance.          *)
(***************************************************************************)
C1_OneInstancePerCall ==
    \A c \in Calls : \A d \in Defs :
        LET built == {i \in Loaders : loaders[i].def = d /\ loaders[i].call = c
                                      /\ Constructed(i)}
            users == {e \in Invoked : invoked[e].call = c
                                      /\ d \in Declares(ResolverOf(invoked[e].obj, invoked[e].field))}
        IN /\ Cardinality(built) <= 1
           /\ \A e \in users :
                 \A k \in 1..Len(invoked[e].params) :
                    ResolverOf(invoked[e].obj, invoked[e].field).deps[k] = d
                       => invoked[e].params[k] \in built

(***************************************************************************)
(* C2: an instance cached during one top-level call is never handed to a   *)
(* resolver running in another top-level call, whether the two calls use   *)
(* the same Resolver object or different ones.                             *)
(***************************************************************************)
C2_FreshInstancePerCall ==
    \A e \in Invoked :
        \A k \in 1..Len(invoked[e].params) :
            loaders[invoked[e].params[k]].call = invoked[e].call


\* the attribute a resolver method is named after
FieldName(res) == Tail(res.name)

Fields(o) == 1..Len(IterOverObjectResolvers(o))

\* the resolver fields of o whose derived target attribute o does not have
MissingTargets(o) ==
    {i \in Fields(o) : FieldName(ResolverOf(o, i)) \notin AttrNames(o)}

(***************************************************************************)
(* C5: if an object has a resolver whose derived target attribute does not *)
(* exist, resolve fails with the target-attribute error and no field of    *)
(* that object is mutated, whatever its other resolver fields are.         *)
(***************************************************************************)
C5_NoFieldMutated ==
    \A o \in Objects :
        MissingTargets(o) # {} =>
            /\ attrs[o] = InitAttrs[o]
            /\ \A c \in Calls :
                  (calls[c].root = o /\ calls[c].status # "running") =>
                      /\ calls[c].status = "failed"
                      /\ calls[c].err = "ResolverTargetAttrNotFound"

\* the resolve_obj frames that have left exec_method
Executed == {f \in Frames : /\ frames[f].kind = "resolve_obj" /\ frames[f].pc # "o_exec"
                             /\ calls[frames[f].call].resolver # 0}

\* the class-based definitions f's resolver declares for which the
\* configuration table of f's Resolver lacks a declared attribute
Unconfigured(f) ==
    {d \in Declares(ResolverOf(frames[f].target, frames[f].field)) :
        IsClass(d) /\ ConfigMissing(d, resolvers[calls[frames[f].call].resolver].loader_filters)}

(***************************************************************************)
(* C6: when a class-based batching unit declares a configuration attribute *)
(* the configuration table has no value for, provisioning fails with the   *)
(* missing-configuration error: the resolver declaring the dependency is   *)
(* not invoked, no instance of the unit is cached and none is fetched from.*)
(***************************************************************************)
C6_MissingConfigFails ==
    \A f \in Executed :
        Unconfigured(f) # {} =>
            /\ frames[f].status = "failed"
            /\ frames[f].err = "LoaderFieldNotProvidedError"
            /\ \A e \in Invoked : invoked[e].frame # f
            /\ \A r \in DOMAIN resolvers : \A k \in CacheKeys :
                  resolvers[r].ctx[k] # 0 => loaders[resolvers[r].ctx[k]].def \notin Unconfigured(f)
            /\ \A b \in 1..Len(batches) : loaders[batches[b].inst].def \notin Unconfigured(f)


\* the objects a value holds: itself, or the elements of a collection
ObjectsIn(v) ==
    IF v \in Objects THEN {v}
    ELSE IF v \in Colls THEN {InitElems[v][i] : i \in 1..Len(InitElems[v])} \cap Objects
    ELSE {}

RECURSIVE Reach(_)
\* the objects of the graph that resolving v fills in
Reach(v) ==
    LET here == ObjectsIn(v)
        next == UNION {UNION {ObjectsIn(SettledValue(ResolverOf(o, i))) : i \in Fields(o)} :
                          o \in here}
    IN here \cup UNION {Reach(w) : w \in next}

\* what the attributes of o are once all its resolver fields are written
FinalAttrs(o) ==
    [a \in AttrNames(o) |->
        IF \E i \in Fields(o) : FieldName(ResolverOf(o, i)) = a
        THEN SettledValue(ResolverOf(o, CHOOSE i \in Fields(o) : FieldName(ResolverOf(o, i)) = a))
        ELSE InitAttrs[o][a]]

(***************************************************************************)
(* C3: a post-process hook of an object is invoked only after every        *)
(* resolver field of the object is written with its final value, the whole *)
(* subtree under each field included (nested fields written, nested hooks  *)
(* run); the hooks of one object run one at a time in enumeration order.   *)
(***************************************************************************)
C3_HooksAfterFields ==
    \A n \in 1..Len(hookLog) :
        LET h == hookLog[n]
        IN /\ h.open = {}
           /\ \A o \in Reach(h.obj) : \A i \in Fields(o) :
                 h.seen[o][FieldName(ResolverOf(o, i))] = SettledValue(ResolverOf(o, i))
           /\ \A o \in Reach(h.obj) \ {h.obj} :
                 \A j \in 1..Len(IterOverObjectPostMethods(o)) :
                    \E m \in 1..(n - 1) :
                       hookLog[m].obj = o /\ hookLog[m].hook = j /\ hookLog[m].call = h.call
           /\ h.hook = 1 + Cardinality({m \in 1..(n - 1) : hookLog[m].frame = h.frame})

\* the second hook of P runs: P has a nested object and a nested collection
C3_Witness ==
    \E n \in 1..Len(hookLog) : hookLog[n].obj = "P" /\ hookLog[n].hook = 2

(***************************************************************************)
(* C7: whatever a resolver returns (a plain value, a coroutine, a future   *)
(* settled later, an awaitable yielding an awaitable), the value written   *)
(* to the target attribute is the settled concrete value, never a pending  *)
(* coroutine or future; after a successful resolve every such field holds  *)
(* its settled value.                                                      *)
(***************************************************************************)
C7_SettledValueWritten ==
    /\ \A o \in Objects : \A a \in DOMAIN attrs[o] :
          attrs[o][a] \notin {"<coroutine>", "<future>"}
    /\ \A f \in Frames :
          (frames[f].kind = "resolve_obj" /\ frames[f].status = "done") =>
              frames[f].val = V(SettledValue(ResolverOf(frames[f].target, frames[f].field)))
    /\ \A c \in Calls :
          calls[c].status = "returned" =>
              \A o \in Reach(calls[c].root) : \A i \in Fields(o) :
                  attrs[o][FieldName(ResolverOf(o, i))] = SettledValue(ResolverOf(o, i))

\* T resolved: its four fields come from a coroutine, a plain value, a future
\* set by a background task, and a coroutine yielding such a future
C7_Witness ==
    \E c \in Calls :
        /\ calls[c].root = "T" /\ calls[c].status = "returned"
        /\ attrs["T"][<<"future">>] = "vhello" /\ attrs["T"][<<"chained">>] = "vname"
        /\ attrs["T"][<<"scores">>] = "vscores" /\ attrs["T"][<<"age">>] = "v12"

(***************************************************************************)
(* C8: for an object with N independent resolver fields, the field values  *)
(* after resolve are the same under every interleaving of the N field      *)
(* tasks.                                                                  *)
(***************************************************************************)
C8_SameValuesEveryInterleaving ==
    \A f \in Frames :
        (frames[f].kind = "resolve" /\ frames[f].status = "done"
            /\ frames[f].target \in Objects) =>
                attrs[frames[f].target] = FinalAttrs(frames[f].target)

\* T resolved with the task of its fourth field overtaking that of its third
C8_Witness ==
    \E f, g \in Frames :
        /\ frames[f].kind = "resolve_obj" /\ frames[g].kind = "resolve_obj"
        /\ frames[f].target = "T" /\ frames[g].target = "T"
        /\ frames[f].parent = frames[g].parent
        /\ frames[f].field = 3 /\ frames[g].field = 4
        /\ frames[f].status = "done" /\ frames[g].status = "done"
        /\ frames[g].child < frames[f].child
        /\ frames[frames[f].parent].status = "done"


Range(q) == {q[i] : i \in 1..Len(q)}

\* the invocations of call c whose resolver calls load on definition d
LoadsOf(c, d) ==
    {e \in Invoked :
        /\ invoked[e].call = c
        /\ ResolverOf(invoked[e].obj, invoked[e].field).kind = "load"
        /\ ResolverOf(invoked[e].obj, invoked[e].field).deps[1] = d}

\* the keys the objects of collection v load from definition d
KeysOf(v, d) ==
    {ResolverOf(o, i).ret : <<o, i>> \in
        {<<o, i>> \in ObjectsIn(v) \X (1..4) :
            /\ i \in Fields(o)
            /\ ResolverOf(o, i).kind = "load"
            /\ ResolverOf(o, i).deps[1] = d}}

(***************************************************************************)
(* C4: when a collection of objects is resolved and each object's resolver *)
(* calls load(key) on the same batching-unit dependency, every load of the *)
(* collection is enqueued on the one shared instance before its batch is   *)
(* dispatched: the batch-fetch runs once, with all the keys.               *)
(***************************************************************************)
C4_OneBatchForCollection ==
    \A c \in Calls : \A d \in Defs :
        (calls[c].root \in Colls /\ LoadsOf(c, d) # {}) =>
            LET insts == {invoked[e].params[1] : e \in LoadsOf(c, d)}
                bs    == {b \in 1..Len(batches) : batches[b].inst \in insts}
            IN /\ Cardinality(insts) = 1
               /\ Cardinality(bs) <= 1
               /\ \A b \in bs : KeysOf(calls[c].root, d) \subseteq Range(batches[b].keys)
               /\ calls[c].status = "returned" => Cardinality(bs) = 1

\* the collection of three objects is resolved by one fetch of three keys
C4_Witness ==
    \E c \in Calls :
        /\ calls[c].root = "LS" /\ calls[c].status = "returned"
        /\ Len(batches) = 1 /\ Range(batches[1].keys) = {"k1", "k2", "k3"}
        /\ attrs["S3"][<<"books">>] = "b3"

\* the position in failLog of the first child task of p that raised
FirstFailure(p) ==
    CHOOSE n \in 1..Len(failLog) :
        /\ frames[failLog[n].frame].parent = p
        /\ \A m \in 1..(n - 1) : frames[failLog[m].frame].parent # p

(***************************************************************************)
(* C9: an error raised in any field resolution step or hook check anywhere *)
(* in the graph makes the top-level resolve fail and never return a value: *)
(* it is not swallowed at an intermediate level, the failed step is not    *)
(* run again, and of several failing siblings the first to fail is the     *)
(* error reported.                                                         *)
(***************************************************************************)
C9_ErrorsPropagate ==
    /\ \A c \in Calls :
          calls[c].status = "returned" =>
              \A f \in Frames : frames[f].call = c => frames[f].status = "done"
    /\ \A c \in Calls :
          calls[c].status = "failed" =>
              /\ frames[calls[c].frame].status = "failed"
              /\ calls[c].err = frames[calls[c].frame].err
              /\ calls[c].result = ""
    /\ \A p \in Frames :
          /\ frames[p].gerr # "" =>
                /\ \E n \in 1..Len(failLog) : frames[failLog[n].frame].parent = p
                /\ frames[p].gerr = failLog[FirstFailure(p)].err
          /\ (frames[p].gerr # "" /\ frames[p].pc \notin {"r_list_wait", "r_obj_wait"}) =>
                frames[p].status = "failed" /\ frames[p].err = frames[p].gerr
          /\ (frames[p].child # 0 /\ frames[frames[p].child].status = "failed"
                 /\ frames[p].pc # "o_resolve_wait") =>
                frames[p].status = "failed" /\ frames[p].err = frames[frames[p].child].err
    /\ \A f, g \in Frames :
          (f # g /\ frames[f].kind = "resolve_obj" /\ frames[g].kind = "resolve_obj"
              /\ frames[f].parent = frames[g].parent) => frames[f].field # frames[g].field
    /\ \A n, m \in 1..Len(failLog) : n # m => failLog[n].frame # failLog[m].frame

\* W fails with two failing siblings: the nested hook check of K reported,
\* although the missing configuration of G's loader was raised as well
C9_Witness ==
    \E c \in Calls : \E f, g \in Frames :
        /\ calls[c].root = "W" /\ calls[c].status = "failed"
        /\ frames[f].parent = calls[c].frame /\ frames[g].parent = calls[c].frame
        /\ frames[f].status = "failed" /\ frames[g].status = "failed"
        /\ frames[f].err = "ResolverTargetAttrNotFound"
        /\ frames[g].err = "LoaderFieldNotProvidedError"
        /\ calls[c].err = "LoaderFieldNotProvidedError"

(***************************************************************************)
(* C10: resolve returns the very value it was given: a plain value is      *)
(* returned unchanged, a collection keeps its length and its elements, an  *)
(* object is not replaced, and only the target attributes of resolver      *)
(* fields are written.                                                     *)
(***************************************************************************)
C10_ReturnsSameValue ==
    /\ \A c \in Calls : calls[c].status = "returned" => calls[c].result = calls[c].root
    /\ \A f \in Frames :
          (frames[f].kind = "resolve" /\ frames[f].status = "done") =>
              frames[f].result = frames[f].target
    /\ elems = InitElems
    /\ \A o \in Objects :
          /\ DOMAIN attrs[o] = AttrNames(o)
          /\ \A a \in AttrNames(o) :
                (\A i \in Fields(o) : FieldName(ResolverOf(o, i)) # a) =>
                    attrs[o][a] = InitAttrs[o][a]

\* a collection was resolved, its objects filled in, and returned
C10_Witness ==
    \E c \in Calls :
        /\ calls[c].root = "LS" /\ calls[c].status = "returned" /\ calls[c].result = "LS"
        /\ attrs["S1"][<<"books">>] = "b1" /\ attrs["S1"][<<"id">>] = "k1"

(***************************************************************************)
(* C11: idempotence.  Running Resolver.resolve again on a value that an    *)
(* earlier Resolver.resolve fully resolved succeeds and leaves every field *)
(* of every object of the graph with the value it had after the first run, *)
(* during the second run and after it.                                     *)
(***************************************************************************)
C11_Idempotent ==
    \A c \in Calls : \A p \in calls[c].prior :
        (calls[p].root = calls[c].root /\ calls[c].resolver # 0 /\ calls[p].resolver # 0) =>
            /\ calls[c].status # "failed"
            /\ \A o \in Reach(calls[c].root) :
                  /\ attrs[o] = calls[p].after[o]
                  /\ calls[c].status = "returned" => calls[c].after[o] = calls[p].after[o]

\* the collection of three objects resolved a second time on the same
\* Resolver: the second run was served by the first run's batching unit
C11_Witness ==
    \E c \in Calls : \E p \in calls[c].prior :
        /\ calls[c].root = "LS" /\ calls[p].root = "LS"
        /\ calls[c].resolver = calls[p].resolver
        /\ calls[c].status = "returned"
        /\ calls[c].after["S2"][<<"books">>] = "b2"
        /\ \E e \in Invoked : invoked[e].call = c /\ invoked[e].obj = "S2"

\* the calls made through the plain resolve function
PlainCalls == {c \in Calls : calls[c].resolver = 0}

\* the objects of a graph one of whose resolvers declares a LoaderDepend parameter
Dependent(v) == {o \in Reach(v) : \E i \in Fields(o) : Len(ResolverOf(o, i).deps) > 0}

C13_SiblingResultsDiscarded ==
    [][\A c \in Calls :
          (calls[c].status = "failed" /\ running # 0 /\ frames[running].call = c)
              => attrs' = attrs]_vars

\* the field resolution steps that failed one of their own two checks
FailedCheck ==
    {f \in Frames :
        /\ frames[f].kind = "resolve_obj" /\ frames[f].status = "failed"
        /\ frames[f].child = 0
        /\ frames[f].err \in {"ResolverTargetAttrNotFound", "MissingAnnotationError"}}

(***************************************************************************)
(* C14: in a field resolution step the target-attribute check and, in      *)
(* strict mode, the return-annotation check precede the invocation of the  *)
(* resolver: when either check fails, the resolver function has not been   *)
(* invoked and no batching unit has been provisioned or cached for it.     *)
(***************************************************************************)
C14_ChecksBeforeInvocation ==
    \A f \in FailedCheck :
        /\ \A e \in Invoked : invoked[e].frame # f
        /\ \A i \in Loaders : loaders[i].frame # f

\* the tasks a resolve frame started with gather
TasksOf(f) == {g \in Frames : frames[g].parent = f /\ frames[g].mode = "task"}

(***************************************************************************)
(* C15: join/barrier.  A resolve on a collection or an object does not     *)
(* proceed past its gather, and so does not return, while an element or    *)
(* field task it started is pending; when the top-level resolve returns    *)
(* successfully every resolver field of every object reachable from the    *)
(* root has been written and no task of the call is still in flight.       *)
(***************************************************************************)
C15_JoinBarrier ==
    /\ \A f \in Frames :
          (frames[f].kind = "resolve" /\ frames[f].pc \in {"r_obj", "r_post", "r_ret", "returned"}) =>
              \A g \in TasksOf(f) : frames[g].status = "done"
    /\ \A c \in Calls :
          calls[c].status = "returned" =>
              /\ \A f \in Frames : frames[f].call = c => frames[f].pc = "returned"
              /\ \A n \in 1..Len(ready) :
                    ready[n].op \in {"step", "done"} => frames[ready[n].id].call # c
              /\ \A n \in 1..Len(futures) : \A k \in 1..Len(futures[n].waiters) :
                    frames[futures[n].waiters[k]].call # c
              /\ \A o \in Reach(calls[c].root) : \A i \in Fields(o) :
                    /\ \E g \in Frames : /\ frames[g].call = c /\ frames[g].kind = "resolve_obj"
                                          /\ frames[g].target = o /\ frames[g].field = i
                                          /\ frames[g].status = "done"
                    /\ calls[c].after[o][FieldName(ResolverOf(o, i))] = SettledValue(ResolverOf(o, i))

\* P returned: its nested object and the object of its nested collection
\* were resolved by tasks that had to wait for a future
C15_Witness ==
    \E c \in Calls :
        /\ calls[c].root = "P" /\ calls[c].status = "returned"
        /\ calls[c].after["Q"][<<"v">>] = "v12" /\ calls[c].after["Q2"][<<"v">>] = "v12"
        /\ Cardinality({f \in Frames : frames[f].mode = "task"}) >= 4

(***************************************************************************)
(* C16: if a field resolution step of an object fails, none of that        *)
(* object's post-process hooks is invoked, and neither is any hook of an   *)
(* ancestor object whose field subtree contains the failing object.        *)
(***************************************************************************)
C16_NoHookAfterFailedField ==
    \A n \in 1..Len(hookLog) : \A g \in Frames :
        (frames[g].kind = "resolve_obj" /\ IsUnder(g, hookLog[n].frame)) =>
            frames[g].status # "failed"

\* A has failed because a field of its nested object E failed: E has a hook
\* and a field that was written, A has a hook, and no hook was invoked
C16_Witness ==
    \E c \in Calls :
        /\ calls[c].root = "A" /\ calls[c].status = "failed"
        /\ attrs["E"][<<"a">>] = "v12"
        /\ \E g \in Frames : /\ frames[g].target = "E" /\ frames[g].kind = "resolve_obj"
                              /\ frames[g].status = "failed"
        /\ hookLog = <<>>

\* the hooks of o whose derived target attribute o does not have
MissingHooks(o) ==
    {j \in 1..Len(IterOverObjectPostMethods(o)) :
        Tail(IterOverObjectPostMethods(o)[j]) \notin AttrNames(o)}

\* the hooks invoked by resolve frame f
HooksRun(f) == {hookLog[n].hook : n \in {m \in 1..Len(hookLog) : hookLog[m].frame = f}}

(***************************************************************************)
(* C17: a post-process hook whose derived target attribute does not exist  *)
(* on its object is never invoked: resolve fails with the target-attribute *)
(* error at that hook, the hooks later in enumeration order are not        *)
(* invoked, and the hooks earlier in enumeration order have already run.   *)
(***************************************************************************)
C17_HookTargetMissing ==
    \A f \in Frames :
        (frames[f].kind = "resolve" /\ frames[f].target \in Objects
            /\ MissingHooks(frames[f].target) # {}) =>
                LET j == CHOOSE k \in MissingHooks(frames[f].target) :
                             \A m \in MissingHooks(frames[f].target) : k <= m
                IN /\ \A k \in HooksRun(f) : k < j
                   /\ frames[f].status # "done"
                   /\ (frames[f].status = "failed" /\ frames[f].gerr = "") =>
                         /\ frames[f].err = "ResolverTargetAttrNotFound"
                         /\ HooksRun(f) = 1..(j - 1)
                   /\ (frames[f].mode = "top" /\ calls[frames[f].call].status # "running") =>
                         /\ calls[frames[f].call].status = "failed"
                         /\ frames[f].gerr = "" =>
                               calls[frames[f].call].err = "ResolverTargetAttrNotFound"

\* K has failed at its second hook: the first hook ran, the third did not
C17_Witness ==
    \E c \in Calls :
        /\ calls[c].root = "K" /\ calls[c].status = "failed"
        /\ calls[c].err = "ResolverTargetAttrNotFound"
        /\ HooksRun(calls[c].frame) = {1}
        /\ attrs["K"][<<"a">>] = "v12"

\* strict-typing mode of the Resolver that frame f runs under
Strict(f) ==
    /\ calls[frames[f].call].resolver # 0
    /\ resolvers[calls[frames[f].call].resolver].ensure_type

(***************************************************************************)
(* C18: with strict-typing mode enabled, every resolver function that      *)
(* carries no return-type annotation makes its field resolution fail with  *)
(* the missing-annotation error, whether or not its parameters are         *)
(* annotated; with strict mode disabled this error is never raised.        *)
(***************************************************************************)
C18_StrictNeedsReturnAnnotation ==
    \A f \in Frames :
        frames[f].kind = "resolve_obj" =>
            LET res == ResolverOf(frames[f].target, frames[f].field)
            IN /\ (Strict(f) /\ "return" \notin res.annotations) =>
                     /\ frames[f].pc \in {"o_exec", "o_check", "raised"}
                     /\ (frames[f].pc = "raised" /\ FieldName(res) \in AttrNames(frames[f].target)
                            /\ \E e \in Invoked : invoked[e].frame = f) =>
                           frames[f].err = "MissingAnnotationError"
               /\ ~Strict(f) => frames[f].err # "MissingAnnotationError"

(***************************************************************************)
(* C19: two distinct batching-unit definitions used in one resolve call    *)
(* never share a cached instance: every resolver receives an instance      *)
(* built from the definition it declared, including when two definitions   *)
(* have the same name, in the same module or in different modules.         *)
(***************************************************************************)
C19_InstanceOfDeclaredDefinition ==
    \A e \in Invoked : \A k \in 1..Len(invoked[e].params) :
        loaders[invoked[e].params[k]].def
            = ResolverOf(invoked[e].obj, invoked[e].field).deps[k]

\* the invocations of resolver i of object o during call c
InvocationsOf(c, o, i) ==
    {e \in Invoked : invoked[e].call = c /\ invoked[e].obj = o /\ invoked[e].field = i}

\* the invocations of hook j of object o during call c
HookRunsOf(c, o, j) ==
    {n \in 1..Len(hookLog) : hookLog[n].call = c /\ hookLog[n].obj = o /\ hookLog[n].hook = j}

\* the visits of call c to object o: one resolve frame for each path to it
Visits(c, o) ==
    {f \in Frames : frames[f].call = c /\ frames[f].kind = "resolve" /\ frames[f].target = o}

(***************************************************************************)
(* C20: during one successful top-level resolve call each resolver         *)
(* function of each object in the graph is invoked exactly once and each   *)
(* post-process hook exactly once, including when the same object is       *)
(* reachable more than once (listed twice in the root collection).         *)
(***************************************************************************)
C20_InvokedExactlyOnce ==
    \A c \in Calls :
        calls[c].status = "returned" =>
            \A o \in Reach(calls[c].root) :
                /\ \A i \in Fields(o) : Cardinality(InvocationsOf(c, o, i)) = 1
                /\ \A j \in 1..Len(IterOverObjectPostMethods(o)) :
                      Cardinality(HookRunsOf(c, o, j)) = 1

(***************************************************************************)
(* C20, amended: during one successful top-level resolve call each         *)
(* resolver function and each post-process hook of an object is invoked    *)
(* exactly once for each visit of the traversal to that object; an object  *)
(* reachable k times is visited k times, so they are invoked k times.      *)
(***************************************************************************)
C20_InvokedOncePerVisit ==
    /\ \A e1, e2 \in Invoked :
          (e1 # e2 /\ frames[invoked[e1].frame].parent = frames[invoked[e2].frame].parent)
              => invoked[e1].field # invoked[e2].field
    /\ \A c \in Calls :
          calls[c].status = "returned" =>
              \A o \in Reach(calls[c].root) :
                  /\ Visits(c, o) # {}
                  /\ \A f \in Visits(c, o) :
                        /\ \A i \in Fields(o) :
                              Cardinality({e \in InvocationsOf(c, o, i) :
                                              frames[invoked[e].frame].parent = f}) = 1
                        /\ \A j \in 1..Len(IterOverObjectPostMethods(o)) :
                              Cardinality({n \in HookRunsOf(c, o, j) : hookLog[n].frame = f}) = 1
                  /\ \A i \in Fields(o) :
                        Cardinality(InvocationsOf(c, o, i)) = Cardinality(Visits(c, o))
                  /\ \A j \in 1..Len(IterOverObjectPostMethods(o)) :
                        Cardinality(HookRunsOf(c, o, j)) = Cardinality(Visits(c, o))

\* the collection listing one object twice has returned: the object was
\* visited twice and its resolver invoked twice
C20_Witness ==
    \E c \in Calls :
        /\ calls[c].root = "LD" /\ calls[c].status = "returned"
        /\ Cardinality(Visits(c, "S1")) = 2
        /\ Cardinality(InvocationsOf(c, "S1", 1)) = 2

====
